---- MODULE Spec2Model ----
(***************************************************************************)
(* Write path of the sharded blockchain event sink                         *)
(* (yellowstone-grpc-tools/src/scylladb/sink.rs).                          *)
(*                                                                         *)
(* One producer identity P is shared by the sink instances of Instances.   *)
(* The database tables and the etcd lock are global; the shard workers,    *)
(* the round-robin router and the caller belong to the instance that       *)
(* completed ScyllaSink::new.                                              *)
(***************************************************************************)
EXTENDS Integers, Sequences, FiniteSets, TLC

VARIABLES
    \* ---- database tables, rows of producer P
    producer_info,          \* TRUE when the producer_info row exists
    producer_lock,          \* the producer_lock row
    period_commit,          \* [shard -> sequence of periods], in write order
    log,                    \* [shard -> sequence of batches], in write order
    slot_seen,              \* sequence of producer_slot_seen writes
    db_faults,              \* number of database requests that failed so far
    \* ---- etcd
    etcd_holder,            \* instance holding the producer lock key, or None
    \* ---- ScyllaSink::new / shutdown, per instance
    pc,                     \* position of each instance: "off", "idle", "info", "locked",
                            \* "lockrow", "recovered", "ready", "running", "shutting",
                            \* "stopped" (shutdown returned Ok), "stopped_err", "dropped",
                            \* "aborted" (refused by a table or the lock), "failed"
    shard_offsets,          \* per instance: result of offset recovery
    restart,                \* instances started after a clean shutdown
    budget,                 \* number of events the caller has to log
    \* ---- caller of the running sink
    sent,                   \* number of log_* calls that returned Ok
    log_failed,             \* TRUE once a log_* call returned Err
    \* ---- shard workers
    sh_pc,                  \* "none", "run", "done" (Ok), "failed" (Err)
    start_offset,           \* next_offset given to Shard::new
    next_offset,
    buffer,
    curr_batch_byte_size,
    last_committed_period,
    mailbox,                \* shard mailboxes (mpsc, FIFO)
    watch,                  \* shard_offset_watch (latest value)
    \* ---- round-robin router
    r_pc,                   \* "none","recv","await_bg","reserve","shutdown","join","done","failed"
    r_mail,                 \* router mailbox
    r_msg,                  \* message the router currently holds
    cursor,                 \* index i of the cycling iterator
    sd_idx,                 \* next shard to send Shutdown to
    slots_seen,
    max_slot_seen,
    background_commit_slot_seen,
    dispatched,             \* history: (event id, shard) pairs in dispatch order
    detached_commits,       \* slot-seen tasks still running whose JoinHandle was replaced
    spawned_commits,        \* history: slots of the spawned slot-seen tasks, in spawn order
    evictions,              \* history: per slot, how often it was popped from slots_seen
    loop_exit,              \* history: how the router left its loop: "none",
                            \* "shutdown" (break on Shutdown), "closed" (break on a
                            \* failed reservation)
    \* ---- tables and etcd keys read by ProducerQueries, rows of every producer
    lock_rows,              \* producer_lock: [producer -> row]
    etcd_kvs,               \* keys under the producer lock prefix: [producer -> key]
    info_rows,              \* producer_info: [producer -> commitment level, or NoLevel]
    slot_producer_seen_mv,  \* set of << producer, slot >>
    producer_consumer_mapping_mv,   \* [producer -> number of mapping rows]
    query_result,           \* the last ProducerQueries call and what it returned
    \* ---- rows of the producer a consumer seeks in, read by compute_offset
    seek_producer_info,     \* producer_info row: NoRow or its num_shards
    seek_producer_lock,     \* producer_lock row: NoRow or revision, minimum_shard_offset
    seek_producer_slot_seen,    \* producer_slot_seen: [slot -> NoRow or its row]
    \* ---- the staging step of a shard worker, taken alone
    stage_result            \* the worker state and command it was applied to, and
                            \* what it yields

vars == << producer_info, producer_lock, period_commit, log, slot_seen, db_faults,
           etcd_holder, pc, shard_offsets, restart, budget, sent, log_failed,
           sh_pc, start_offset, next_offset, buffer, curr_batch_byte_size,
           last_committed_period, mailbox, watch,
           r_pc, r_mail, r_msg, cursor, sd_idx, slots_seen, max_slot_seen,
           background_commit_slot_seen, dispatched, evictions, loop_exit,
           detached_commits, spawned_commits,
           lock_rows, etcd_kvs, info_rows, slot_producer_seen_mv,
           producer_consumer_mapping_mv, query_result,
           seek_producer_info, seek_producer_lock, seek_producer_slot_seen,
           stage_result >>

db_vars == << producer_info, producer_lock, period_commit, log, slot_seen, db_faults >>
inst_vars == << pc, shard_offsets, restart, budget >>
client_vars == << sent, log_failed >>
shard_vars == << sh_pc, start_offset, next_offset, buffer, curr_batch_byte_size,
                 last_committed_period, mailbox, watch >>
router_vars == << r_pc, r_mail, r_msg, cursor, sd_idx, slots_seen, max_slot_seen,
                  background_commit_slot_seen, dispatched, evictions, loop_exit,
                  detached_commits, spawned_commits >>
query_vars == << lock_rows, etcd_kvs, info_rows, slot_producer_seen_mv,
                 producer_consumer_mapping_mv, query_result,
                 seek_producer_info, seek_producer_lock, seek_producer_slot_seen >>
seek_vars == << seek_producer_info, seek_producer_lock, seek_producer_slot_seen >>

----------------------------------------------------------------------------
\* Bounds of the model and scaled-down program constants.

\* Number of events the caller logs in a run.
MaxEvents == 3
\* Number of events the caller logs when a fleet of instances is started.
FleetEvents == 2
\* Number of database requests that may fail in a behaviour.
MaxDbFaults == 1
\* Period size (types::SHARD_OFFSET_MODULO), scaled down.
SHARD_OFFSET_MODULO == 2
\* Buffer capacity given to Shard::new (15 in the source), scaled down.
DEFAULT_SHARD_MAX_BUFFER_CAPACITY == 2
\* config.batch_size_kb_limit * 1024, scaled down.
max_buffer_byte_size == 4
\* Capacity of a shard mailbox (16 in the source), scaled down.
ShardMailboxCapacity == 1
\* Capacity of the router mailbox (15 in the source), scaled down.
RouterMailboxCapacity == 1
\* Retention of slots_seen (9000 in the source), scaled down.
SLOT_SEEN_RETENTION == 2

Instances == {"a", "b"}
\* config.num_shards = 2
Shards == {0, 1}
num_shards == Cardinality(Shards)
Slots == {1, 2}
MsgSizes == {1, 3}

None == "None"
Shutdown == [type |-> "Shutdown"]
\* the router holds no message
NoMsg == [type |-> "None"]
\* Slot passed to ScyllaSink::new
initial_slot == 0

----------------------------------------------------------------------------
\* Helpers

RECURSIVE Flatten(_)
Flatten(ss) == IF ss = << >> THEN << >> ELSE Head(ss) \o Flatten(Tail(ss))

Range(f) == { f[x] : x \in DOMAIN f }

Max(S) == CHOOSE x \in S : \A y \in S : y <= x
Min(S) == CHOOSE x \in S : \A y \in S : x <= y

\* Rust integer division and remainder truncate toward zero; offsets are >= 0 here.
Div(a, b) == a \div b
Rem(a, b) == a % b

----------------------------------------------------------------------------
\* Database rows and queries

\* null map
NullMap == << >>

\* null in the columns revision and execution_id; the revisions of etcd are positive
NullRevision == 0
NullExecutionId == << >>

NoLockRow ==
    [exists |-> FALSE, is_ready |-> FALSE, minimum_shard_offset |-> NullMap,
     revision |-> NullRevision, execution_id |-> NullExecutionId]

\* INSERT_INITIAL_PRODUCER_LOCK_STATE: is_ready = false, minimum_shard_offset = null;
\* the columns revision and execution_id are not in the statement
InitialLockRow ==
    [exists |-> TRUE, is_ready |-> FALSE, minimum_shard_offset |-> NullMap,
     revision |-> NullRevision, execution_id |-> NullExecutionId]

\* Mutation: a plain INSERT, which always reports success
LwtInsertSucceeded_Always(row_exists) == TRUE

\* Outcome of a light weight transaction INSERT ... IF NOT EXISTS
LwtInsertSucceeded(row_exists) == ~row_exists

\* Outcome of a light weight transaction UPDATE ... IF EXISTS
LwtUpdateSucceeded(row_exists) == row_exists

\* The period column of a log row
PeriodOf(offset) == Div(offset, SHARD_OFFSET_MODULO)

\* All log rows of a shard
LogRows(tbl, s) == Range(Flatten(tbl[s]))

\* Offsets of the rows in partition (s, period)
PartitionOffsets(tbl, s, period) ==
    { e.offset : e \in { r \in LogRows(tbl, s) : PeriodOf(r.offset) = period } }

\* query_last_period_commit, then period + 1, 0 for a shard without a row
current_period_foreach_shard(commits) ==
    [ s \in Shards |->
        IF commits[s] = << >> THEN 0 ELSE Max(Range(commits[s])) + 1 ]

\* get_max_shard_offsets_for_producer: the variant with the period fallback
get_max_shard_offsets_for_producer(commits, tbl) ==
    LET cur == current_period_foreach_shard(commits) IN
    [ s \in Shards |->
        LET offs == PartitionOffsets(tbl, s, cur[s]) IN
        IF offs = {} THEN (cur[s] * SHARD_OFFSET_MODULO) - 1 ELSE Max(offs) ]

\* get_max_shard_offsets_for_producer_v2: the variant ScyllaSink::new calls
get_max_shard_offsets_for_producer_v2(commits, tbl) ==
    LET cur == current_period_foreach_shard(commits) IN
    [ s \in Shards |->
        LET offs == PartitionOffsets(tbl, s, cur[s]) IN
        IF offs = {} THEN 0 ELSE Max(offs) ]

\* Mutation: is_ready is set without the map
MinimumShardOffsets_Null(offsets) == NullMap

\* set_minimum_producer_offsets: (offset, initial_slot) for every recovered shard
MinimumShardOffsets(offsets) == [ s \in DOMAIN offsets |-> << offsets[s], initial_slot >> ]

----------------------------------------------------------------------------
\* etcd lock

\* try_lock succeeds when nobody holds the key
TryLockSucceeded(holder) == holder = None

\* the managed lock is released when its last owner drops it
ReleaseLock(holder, i) == IF holder = i THEN None ELSE holder

----------------------------------------------------------------------------
InitDb ==
    /\ producer_info = FALSE
    /\ producer_lock = NoLockRow
    /\ period_commit = [ s \in Shards |-> << >> ]
    /\ log = [ s \in Shards |-> << >> ]
    /\ slot_seen = << >>
    /\ db_faults = 0

InitSink ==
    /\ etcd_holder = None
    /\ shard_offsets = [ i \in Instances |-> << >> ]
    /\ restart = {}
    /\ sent = 0
    /\ log_failed = FALSE
    /\ sh_pc = [ s \in Shards |-> "none" ]
    /\ start_offset = [ s \in Shards |-> 0 ]
    /\ next_offset = [ s \in Shards |-> 0 ]
    /\ buffer = [ s \in Shards |-> << >> ]
    /\ curr_batch_byte_size = [ s \in Shards |-> 0 ]
    /\ last_committed_period = [ s \in Shards |-> -1 ]
    /\ mailbox = [ s \in Shards |-> << >> ]
    /\ watch = [ s \in Shards |-> -1 ]
    /\ r_pc = "none"
    /\ r_mail = << >>
    /\ r_msg = NoMsg
    /\ cursor = 0
    /\ sd_idx = 0
    /\ slots_seen = {}
    /\ max_slot_seen = -1
    /\ background_commit_slot_seen = [ state |-> "ok" ]
    /\ dispatched = << >>
    /\ detached_commits = {}
    /\ spawned_commits = << >>
    /\ evictions = [ x \in Slots |-> 0 ]
    /\ loop_exit = "none"

----------------------------------------------------------------------------
\* ScyllaSink::new, one action per awaited step

\* insert_producer_info_legacy
InsertProducerInfo(i) ==
    /\ pc[i] = "idle"
    /\ restart' = IF \E j \in Instances : pc[j] = "stopped" THEN restart \cup {i} ELSE restart
    /\ IF LwtInsertSucceeded(producer_info)
         THEN /\ producer_info' = TRUE
              /\ pc' = [pc EXCEPT ![i] = "info"]
         ELSE /\ pc' = [pc EXCEPT ![i] = "aborted"]
              /\ UNCHANGED producer_info
    /\ UNCHANGED << query_vars, stage_result, producer_lock, period_commit, log, slot_seen, db_faults, etcd_holder,
                    shard_offsets, budget, client_vars, shard_vars, router_vars >>

\* etcd_utils::lock::try_lock
TryLock(i) ==
    /\ pc[i] = "info"
    /\ IF TryLockSucceeded(etcd_holder)
         THEN /\ etcd_holder' = i
              /\ pc' = [pc EXCEPT ![i] = "locked"]
         ELSE /\ pc' = [pc EXCEPT ![i] = "aborted"]
              /\ UNCHANGED etcd_holder
    /\ UNCHANGED << query_vars, stage_result, db_vars, shard_offsets, restart, budget, client_vars, shard_vars, router_vars >>

\* load_producer_lock_state
LoadProducerLockState(i) ==
    /\ pc[i] = "locked"
    /\ IF LwtInsertSucceeded(producer_lock.exists)
         THEN /\ producer_lock' = InitialLockRow
              /\ pc' = [pc EXCEPT ![i] = "lockrow"]
              /\ UNCHANGED etcd_holder
         ELSE /\ pc' = [pc EXCEPT ![i] = "aborted"]
              /\ etcd_holder' = ReleaseLock(etcd_holder, i)
              /\ UNCHANGED producer_lock
    /\ UNCHANGED << query_vars, stage_result, producer_info, period_commit, log, slot_seen, db_faults,
                    shard_offsets, restart, budget, client_vars, shard_vars, router_vars >>

\* get_max_shard_offsets_for_producer_v2 called by ScyllaSink::new
RecoverOffsets(i) ==
    /\ pc[i] = "lockrow"
    /\ shard_offsets' = [shard_offsets EXCEPT
                           ![i] = get_max_shard_offsets_for_producer_v2(period_commit, log)]
    /\ pc' = [pc EXCEPT ![i] = "recovered"]
    /\ UNCHANGED << query_vars, stage_result, db_vars, etcd_holder, restart, budget, client_vars, shard_vars, router_vars >>

\* set_minimum_producer_offsets
SetMinimumProducerOffsets(i) ==
    /\ pc[i] = "recovered"
    /\ IF LwtUpdateSucceeded(producer_lock.exists)
         THEN /\ producer_lock' = [producer_lock EXCEPT
                    !.minimum_shard_offset = MinimumShardOffsets(shard_offsets[i]),
                    !.is_ready = TRUE]
              /\ pc' = [pc EXCEPT ![i] = "ready"]
              /\ UNCHANGED etcd_holder
         ELSE /\ pc' = [pc EXCEPT ![i] = "aborted"]
              /\ etcd_holder' = ReleaseLock(etcd_holder, i)
              /\ UNCHANGED producer_lock
    /\ UNCHANGED << query_vars, stage_result, producer_info, period_commit, log, slot_seen, db_faults,
                    shard_offsets, restart, budget, client_vars, shard_vars, router_vars >>

\* Shard::new with next_offset = last_offset + 1
ShardNewNextOffset(last_offset) == last_offset + 1

\* Shard::new, Shard::into_daemon for every shard, then spawn_round_robin
SpawnShardsAndRouter(i) ==
    /\ pc[i] = "ready"
    /\ \A s \in Shards : ShardNewNextOffset(shard_offsets[i][s]) >= 0
    /\ pc' = [pc EXCEPT ![i] = "running"]
    /\ sh_pc' = [ s \in Shards |-> "run" ]
    /\ start_offset' = [ s \in Shards |-> ShardNewNextOffset(shard_offsets[i][s]) ]
    /\ next_offset' = [ s \in Shards |-> ShardNewNextOffset(shard_offsets[i][s]) ]
    /\ buffer' = [ s \in Shards |-> << >> ]
    /\ curr_batch_byte_size' = [ s \in Shards |-> 0 ]
    /\ last_committed_period' = [ s \in Shards |-> -1 ]
    /\ mailbox' = [ s \in Shards |-> << >> ]
    /\ watch' = [ s \in Shards |-> ShardNewNextOffset(shard_offsets[i][s]) - 1 ]
    /\ r_pc' = "recv"
    /\ r_mail' = << >>
    /\ r_msg' = NoMsg
    /\ cursor' = 0
    /\ sd_idx' = 0
    /\ slots_seen' = {}
    /\ max_slot_seen' = -1
    /\ background_commit_slot_seen' = [ state |-> "ok" ]
    /\ dispatched' = << >>
    /\ detached_commits' = {}
    /\ spawned_commits' = << >>
    /\ evictions' = [ x \in Slots |-> 0 ]
    /\ loop_exit' = "none"
    /\ UNCHANGED << query_vars, stage_result, db_vars, etcd_holder, shard_offsets, restart, budget, client_vars >>

\* Any `?` of ScyllaSink::new returning an error for a reason outside the tables:
\* session build, a failed query, an etcd error, an unresolvable network interface.
StartupFail(i) ==
    /\ pc[i] \in {"idle", "info", "locked", "lockrow", "recovered"}
    /\ pc' = [pc EXCEPT ![i] = "failed"]
    /\ etcd_holder' = ReleaseLock(etcd_holder, i)
    /\ UNCHANGED << query_vars, stage_result, db_vars, shard_offsets, restart, budget, client_vars, shard_vars, router_vars >>

----------------------------------------------------------------------------
\* Caller of the running sink

\* Mutation: try_send, a full mailbox fails the call like a closed one
RouterMailboxClosed_OrFull ==
    r_pc \in {"done", "failed"} \/ Len(r_mail) >= RouterMailboxCapacity

RouterMailboxClosed == r_pc \in {"done", "failed"}

\* log_account_update / log_transaction -> inner_log: waits for capacity in the
\* router mailbox, Err("failed to route") when the mailbox is closed
LogEvent(i) ==
    /\ pc[i] = "running"
    /\ sent < budget
    /\ IF RouterMailboxClosed
         THEN /\ ~log_failed
              /\ log_failed' = TRUE
              /\ UNCHANGED << sent, r_mail >>
         ELSE /\ Len(r_mail) < RouterMailboxCapacity
              /\ \E sl \in Slots, sz \in MsgSizes :
                    r_mail' = Append(r_mail, [type |-> "Insert", id |-> sent,
                                              slot |-> sl, size |-> sz])
              /\ sent' = sent + 1
              /\ UNCHANGED log_failed
    /\ UNCHANGED << query_vars, stage_result, db_vars, etcd_holder, inst_vars, shard_vars,
                    r_pc, r_msg, cursor, sd_idx, slots_seen, max_slot_seen,
                    background_commit_slot_seen, dispatched, evictions,
                    loop_exit, detached_commits, spawned_commits >>

\* ScyllaSink::shutdown, first half: send Shutdown to the router
CallShutdown(i) ==
    /\ pc[i] = "running"
    /\ IF RouterMailboxClosed
         THEN UNCHANGED r_mail
         ELSE /\ Len(r_mail) < RouterMailboxCapacity
              /\ r_mail' = Append(r_mail, Shutdown)
    /\ pc' = [pc EXCEPT ![i] = "shutting"]
    /\ UNCHANGED << query_vars, stage_result, db_vars, etcd_holder, shard_offsets, restart, budget, client_vars, shard_vars,
                    r_pc, r_msg, cursor, sd_idx, slots_seen, max_slot_seen,
                    background_commit_slot_seen, dispatched, evictions,
                    loop_exit, detached_commits, spawned_commits >>

\* Result of awaiting router_handle
ShutdownResult(router_pc) == IF router_pc = "done" THEN "stopped" ELSE "stopped_err"

\* ScyllaSink::shutdown, second half: self.router_handle.await
ShutdownReturn(i) ==
    /\ pc[i] = "shutting"
    /\ r_pc \in {"done", "failed"}
    /\ pc' = [pc EXCEPT ![i] = ShutdownResult(r_pc)]
    /\ UNCHANGED << query_vars, stage_result, db_vars, etcd_holder, shard_offsets, restart, budget, client_vars, shard_vars,
                    router_vars >>

----------------------------------------------------------------------------
\* Shard worker (Shard::into_daemon)

\* The receiving half of a shard mailbox is dropped when the worker task ends
ShardMailboxClosed(s) == sh_pc[s] \in {"done", "failed"}

\* Mutation: the workers do not see the end of the router task
ShardSendersDropped_Never == FALSE

\* The sending halves live in shard_handles, owned by the router task
ShardSendersDropped == r_pc \in {"done", "failed"}

\* Mutation: the comparison with the last committed period is inverted
NeedPeriodCommit_Inverted(offset, last_committed) ==
    /\ Rem(offset, SHARD_OFFSET_MODULO) = 0
    /\ offset > 0
    /\ last_committed = Div(offset, SHARD_OFFSET_MODULO) - 1

\* Mutation: the commit is made off the period boundary
NeedPeriodCommit_OffBoundary(offset, last_committed) ==
    /\ Rem(offset, SHARD_OFFSET_MODULO) # 0
    /\ offset > 0
    /\ last_committed # Div(offset, SHARD_OFFSET_MODULO) - 1

\* "If we started a new period"
NeedPeriodCommit(offset, last_committed) ==
    /\ Rem(offset, SHARD_OFFSET_MODULO) = 0
    /\ offset > 0
    /\ last_committed # Div(offset, SHARD_OFFSET_MODULO) - 1

\* Mutation: the buffer is flushed only once it holds more than max_buffer_capacity
need_flush_OverCapacity(buf, batch_bytes, msg_byte_size, timeout_elapsed) ==
    \/ Len(buf) > DEFAULT_SHARD_MAX_BUFFER_CAPACITY
    \/ batch_bytes + msg_byte_size >= max_buffer_byte_size
    \/ timeout_elapsed

\* need_flush, evaluated before the new event is staged
need_flush(buf, batch_bytes, msg_byte_size, timeout_elapsed) ==
    \/ Len(buf) >= DEFAULT_SHARD_MAX_BUFFER_CAPACITY
    \/ batch_bytes + msg_byte_size >= max_buffer_byte_size
    \/ timeout_elapsed

\* as_blockchain_event(shard_id, producer_id, offset)
as_blockchain_event(msg, offset) ==
    [id |-> msg.id, slot |-> msg.slot, size |-> msg.size, offset |-> offset]

\* Mutation: the event is put at the front of the buffer
BufferPush_Front(buf, ev) == << ev >> \o buf

\* self.buffer.push(blockchain_event)
BufferPush(buf, ev) == Append(buf, ev)

\* Mutation: next_offset is not advanced
NextOffsetAfterStage_Same(offset) == offset

\* self.next_offset += 1
NextOffsetAfterStage(offset) == offset + 1

\* No staging step was taken alone
NoStage == [op |-> "none"]

\* Shard::clear_buffer
clear_buffer == [buffer |-> << >>, curr_batch_byte_size |-> 0]

\* Shard::flush when the batch request succeeds: the rows of the buffer are written
FlushedLog(shard_log, buf) == IF Len(buf) > 0 THEN Append(shard_log, buf) ELSE shard_log

\* Mutation: the worker returns on Shutdown without flushing
ShutdownFlush_Skip(shard_log, buf) == shard_log

\* ShardCommand::Shutdown => self.flush().await?
ShutdownFlush(shard_log, buf) == FlushedLog(shard_log, buf)

\* if need_flush { self.flush().await? ..}, self.buffer.push(blockchain_event),
\* self.curr_batch_byte_size += msg_byte_size, the batch request succeeding:
\* what the log, the buffer and the byte counter become
StageEvent(shard_log, buf, batch_bytes, blockchain_event, timeout_elapsed) ==
    LET flush == need_flush(buf, batch_bytes, blockchain_event.size, timeout_elapsed)
        after_flush == IF flush THEN clear_buffer
                                ELSE [buffer |-> buf, curr_batch_byte_size |-> batch_bytes]
    IN  [flush |-> flush,
         after_flush |-> after_flush,
         log |-> IF flush THEN FlushedLog(shard_log, buf) ELSE shard_log,
         buffer |-> BufferPush(after_flush.buffer, blockchain_event),
         curr_batch_byte_size |-> after_flush.curr_batch_byte_size + blockchain_event.size]

\* session.execute(commit_period_ps, (producer_id, shard_id, prev_period)) at the loop top
ShardCommitPeriod(s) ==
    /\ sh_pc[s] = "run"
    /\ NeedPeriodCommit(next_offset[s], last_committed_period[s])
    /\ LET prev_period == Div(next_offset[s], SHARD_OFFSET_MODULO) - 1 IN
       \/ /\ period_commit' = [period_commit EXCEPT ![s] = Append(@, prev_period)]
          /\ last_committed_period' = [last_committed_period EXCEPT ![s] = prev_period]
          /\ UNCHANGED << db_faults, sh_pc, mailbox >>
       \/ /\ db_faults < MaxDbFaults
          /\ db_faults' = db_faults + 1
          /\ sh_pc' = [sh_pc EXCEPT ![s] = "failed"]
          /\ mailbox' = [mailbox EXCEPT ![s] = << >>]
          /\ UNCHANGED << period_commit, last_committed_period >>
    /\ UNCHANGED << query_vars, stage_result, producer_info, producer_lock, log, slot_seen, etcd_holder, inst_vars,
                    client_vars, start_offset, next_offset, buffer, curr_batch_byte_size,
                    watch, router_vars >>

\* receiver.recv() returns ShardCommand::Shutdown: flush, then return Ok
ShardShutdown(s) ==
    /\ sh_pc[s] = "run"
    /\ ~NeedPeriodCommit(next_offset[s], last_committed_period[s])
    /\ mailbox[s] # << >>
    /\ Head(mailbox[s]).type = "Shutdown"
    /\ \/ /\ log' = [log EXCEPT ![s] = ShutdownFlush(@, buffer[s])]
          /\ buffer' = [buffer EXCEPT ![s] = clear_buffer.buffer]
          /\ curr_batch_byte_size' = [curr_batch_byte_size EXCEPT ![s] =
                                      clear_buffer.curr_batch_byte_size]
          /\ sh_pc' = [sh_pc EXCEPT ![s] = "done"]
          /\ UNCHANGED db_faults
       \/ /\ Len(buffer[s]) > 0
          /\ db_faults < MaxDbFaults
          /\ db_faults' = db_faults + 1
          /\ sh_pc' = [sh_pc EXCEPT ![s] = "failed"]
          /\ UNCHANGED << log, buffer, curr_batch_byte_size >>
    /\ mailbox' = [mailbox EXCEPT ![s] = << >>]
    /\ UNCHANGED << query_vars, stage_result, producer_info, producer_lock, period_commit, slot_seen, etcd_holder,
                    inst_vars, client_vars, start_offset, next_offset,
                    last_committed_period, watch, router_vars >>

\* receiver.recv() returns an insert command: flush if needed, stage, publish the
\* offset on the watch channel, advance next_offset
ShardInsert(s) ==
    /\ sh_pc[s] = "run"
    /\ ~NeedPeriodCommit(next_offset[s], last_committed_period[s])
    /\ mailbox[s] # << >>
    /\ Head(mailbox[s]).type = "Insert"
    /\ LET msg == Head(mailbox[s])
           offset == next_offset[s]
           blockchain_event == as_blockchain_event(msg, offset)
       IN \E timeout_elapsed \in BOOLEAN :
          LET staged == StageEvent(log[s], buffer[s], curr_batch_byte_size[s],
                                   blockchain_event, timeout_elapsed)
              flush == staged.flush
          IN
          \/ /\ log' = [log EXCEPT ![s] = staged.log]
             /\ buffer' = [buffer EXCEPT ![s] = staged.buffer]
             /\ curr_batch_byte_size' = [curr_batch_byte_size EXCEPT ![s] =
                                         staged.curr_batch_byte_size]
             /\ IF ShardSendersDropped
                  THEN \* wsender.send fails: the router dropped the watch receiver
                       /\ sh_pc' = [sh_pc EXCEPT ![s] = "failed"]
                       /\ mailbox' = [mailbox EXCEPT ![s] = << >>]
                       /\ UNCHANGED << watch, next_offset >>
                  ELSE /\ watch' = [watch EXCEPT ![s] = offset]
                       /\ next_offset' = [next_offset EXCEPT
                                            ![s] = NextOffsetAfterStage(offset)]
                       /\ mailbox' = [mailbox EXCEPT ![s] = Tail(@)]
                       /\ UNCHANGED sh_pc
             /\ UNCHANGED db_faults
          \/ /\ flush
             /\ Len(buffer[s]) > 0
             /\ db_faults < MaxDbFaults
             /\ db_faults' = db_faults + 1
             /\ sh_pc' = [sh_pc EXCEPT ![s] = "failed"]
             /\ mailbox' = [mailbox EXCEPT ![s] = << >>]
             /\ UNCHANGED << log, buffer, curr_batch_byte_size, watch, next_offset >>
    /\ UNCHANGED << query_vars, stage_result, producer_info, producer_lock, period_commit, slot_seen, etcd_holder,
                    inst_vars, client_vars, start_offset, last_committed_period,
                    router_vars >>

\* receiver.recv() returns None: every sender is gone -> Err("Shard mailbox closed")
ShardRecvClosed(s) ==
    /\ sh_pc[s] = "run"
    /\ ~NeedPeriodCommit(next_offset[s], last_committed_period[s])
    /\ mailbox[s] = << >>
    /\ ShardSendersDropped
    /\ sh_pc' = [sh_pc EXCEPT ![s] = "failed"]
    /\ UNCHANGED << query_vars, stage_result, db_vars, etcd_holder, inst_vars, client_vars, start_offset, next_offset,
                    buffer, curr_batch_byte_size, last_committed_period, mailbox, watch,
                    router_vars >>

----------------------------------------------------------------------------
\* Round-robin router (spawn_round_robin)

\* The caller's router_sender is gone when the sink was dropped
RouterSendersDropped == \E i \in Instances : pc[i] = "dropped"

\* Mutation: every command is taken for the first of its slot
IsNewSlot_Always(seen, slot) == TRUE

\* slots_seen.insert(slot) returns true when the slot was not in the set
IsNewSlot(seen, slot) == slot \notin seen

\* Mutation: pop_last instead of pop_first
RECURSIVE EvictSlots_Largest(_)
EvictSlots_Largest(seen) ==
    IF Cardinality(seen) >= SLOT_SEEN_RETENTION
      THEN EvictSlots_Largest(seen \ {Max(seen)})
      ELSE seen

\* while slots_seen.len() >= SLOT_SEEN_RETENTION { slots_seen.pop_first(); }
RECURSIVE EvictSlots(_)
EvictSlots(seen) ==
    IF Cardinality(seen) >= SLOT_SEEN_RETENTION
      THEN EvictSlots(seen \ {Min(seen)})
      ELSE seen

\* Mutation: max_slot_seen follows the last new slot
NewMaxSlotSeen_Last(max_seen, slot) == slot

\* if max_slot_seen > slot { warn } else { max_slot_seen = slot }
NewMaxSlotSeen(max_seen, slot) == IF max_seen > slot THEN max_seen ELSE slot

\* shard_handles.iter().map(|sh| (sh.shard_id, sh.get_last_committed_offset()))
ShardOffsetPairs(w) == [ s \in Shards |-> w[s] ]

\* Mutation: the iterator does not advance
NextCursor_Stuck(c) == c

\* the cycling iterator over shard_handles
NextCursor(c) == (c + 1) % num_shards

\* The instance whose router this is
RouterOwner == CHOOSE i \in Instances : pc[i] \in {"running", "shutting", "dropped"}

\* The router task ends: its mailbox, the shard handles and the managed lock are dropped
RouterEnds(result) ==
    /\ r_pc' = result
    /\ r_mail' = << >>
    /\ r_msg' = NoMsg
    /\ etcd_holder' = ReleaseLock(etcd_holder, RouterOwner)

\* receiver.recv().await.unwrap_or(ShardCommand::Shutdown), then the slot bookkeeping
RouterRecv ==
    /\ r_pc = "recv"
    /\ \/ r_mail # << >>
       \/ RouterSendersDropped
    /\ LET msg == IF r_mail # << >> THEN Head(r_mail) ELSE Shutdown IN
       /\ r_mail' = IF r_mail # << >> THEN Tail(r_mail) ELSE r_mail
       /\ IF msg.type = "Shutdown"
            THEN /\ r_pc' = "shutdown"
                 /\ sd_idx' = 0
                 /\ loop_exit' = "shutdown"
                 /\ UNCHANGED << r_msg, slots_seen, max_slot_seen, evictions >>
            ELSE /\ r_msg' = msg
                 /\ UNCHANGED << sd_idx, loop_exit >>
                 /\ IF IsNewSlot(slots_seen, msg.slot)
                      THEN /\ slots_seen' = EvictSlots(slots_seen \cup {msg.slot})
                           /\ evictions' = [ x \in Slots |->
                                 IF x \in (slots_seen \cup {msg.slot}) \ slots_seen'
                                   THEN evictions[x] + 1 ELSE evictions[x] ]
                           /\ max_slot_seen' = NewMaxSlotSeen(max_slot_seen, msg.slot)
                           /\ r_pc' = "await_bg"
                      ELSE /\ r_pc' = "reserve"
                           /\ UNCHANGED << slots_seen, max_slot_seen, evictions >>
    /\ UNCHANGED << query_vars, stage_result, db_vars, etcd_holder, inst_vars, client_vars, shard_vars, cursor,
                    background_commit_slot_seen, detached_commits, spawned_commits,
                    dispatched >>

\* Mutation: the previous task is not awaited before the next one is spawned
PreviousCommitJoined_NoAwait(state) == TRUE

\* background_commit_slot_seen.await: the previous slot-seen task has finished
PreviousCommitJoined(state) == state # "running"

\* background_commit_slot_seen.await??, then the snapshot and the next tokio::spawn
RouterAwaitBackground ==
    /\ r_pc = "await_bg"
    /\ PreviousCommitJoined(background_commit_slot_seen.state)
    /\ IF background_commit_slot_seen.state = "err"
         THEN /\ RouterEnds("failed")
              /\ UNCHANGED << background_commit_slot_seen, detached_commits,
                              spawned_commits >>
         ELSE \* the new JoinHandle replaces the old one; a task whose handle is
              \* dropped keeps running
              /\ detached_commits' =
                    IF background_commit_slot_seen.state = "running"
                      THEN detached_commits \cup {background_commit_slot_seen}
                      ELSE detached_commits
              /\ background_commit_slot_seen' =
                    [ state |-> "running", slot |-> r_msg.slot,
                      shard_offset_pairs |-> ShardOffsetPairs(watch),
                      seq |-> Len(spawned_commits) + 1 ]
              /\ spawned_commits' = Append(spawned_commits, r_msg.slot)
              /\ r_pc' = "reserve"
              /\ UNCHANGED << r_mail, r_msg, etcd_holder >>
    /\ UNCHANGED << query_vars, stage_result, db_vars, inst_vars, client_vars, shard_vars, cursor, sd_idx,
                    slots_seen, max_slot_seen, dispatched, evictions, loop_exit >>

\* The spawned task: session.execute(insert_slot_ps, (producer_id, slot, shard_offset_pairs))
BackgroundCommitSlotSeen ==
    /\ \/ /\ background_commit_slot_seen.state = "running"
          /\ \/ /\ slot_seen' = Append(slot_seen,
                       [ slot |-> background_commit_slot_seen.slot,
                         shard_offset_map |->
                             background_commit_slot_seen.shard_offset_pairs ])
                /\ background_commit_slot_seen' = [ state |-> "ok" ]
                /\ UNCHANGED db_faults
             \/ /\ db_faults < MaxDbFaults
                /\ db_faults' = db_faults + 1
                /\ background_commit_slot_seen' =
                      [ state |-> "err", slot |-> background_commit_slot_seen.slot ]
                /\ UNCHANGED slot_seen
          /\ UNCHANGED detached_commits
       \/ \* a task whose handle was replaced: nobody looks at its result
          \E task \in detached_commits :
             /\ detached_commits' = detached_commits \ {task}
             /\ \/ /\ slot_seen' = Append(slot_seen,
                          [ slot |-> task.slot, shard_offset_map |-> task.shard_offset_pairs ])
                   /\ UNCHANGED db_faults
                \/ /\ db_faults < MaxDbFaults
                   /\ db_faults' = db_faults + 1
                   /\ UNCHANGED slot_seen
             /\ UNCHANGED background_commit_slot_seen
    /\ UNCHANGED << query_vars, stage_result, producer_info, producer_lock, period_commit, log, etcd_holder,
                    inst_vars, client_vars, shard_vars, r_pc, r_mail, r_msg, cursor,
                    sd_idx, slots_seen, max_slot_seen, dispatched, evictions, loop_exit,
                    spawned_commits >>

\* shard_sender.reserve().await, then permit.send(msg) or break
RouterReserve ==
    /\ r_pc = "reserve"
    /\ IF ShardMailboxClosed(cursor)
         THEN /\ r_pc' = "shutdown"
              /\ sd_idx' = 0
              /\ r_msg' = NoMsg
              /\ loop_exit' = "closed"
              /\ UNCHANGED << mailbox, cursor, dispatched >>
         ELSE /\ Len(mailbox[cursor]) < ShardMailboxCapacity
              /\ mailbox' = [mailbox EXCEPT ![cursor] = Append(@, r_msg)]
              /\ dispatched' = Append(dispatched, << r_msg.id, cursor >>)
              /\ cursor' = NextCursor(cursor)
              /\ r_pc' = "recv"
              /\ r_msg' = NoMsg
              /\ UNCHANGED << sd_idx, loop_exit >>
    /\ UNCHANGED << query_vars, stage_result, db_vars, etcd_holder, inst_vars, client_vars, sh_pc, start_offset,
                    next_offset, buffer, curr_batch_byte_size, last_committed_period,
                    watch, r_mail, slots_seen, max_slot_seen,
                    background_commit_slot_seen, detached_commits,
                    spawned_commits, evictions >>

\* shard_sender.send(ShardCommand::Shutdown).await? for one shard
RouterSendShutdown ==
    /\ r_pc = "shutdown"
    /\ sd_idx < num_shards
    /\ IF ShardMailboxClosed(sd_idx)
         THEN /\ RouterEnds("failed")
              /\ UNCHANGED << mailbox, sd_idx >>
         ELSE /\ Len(mailbox[sd_idx]) < ShardMailboxCapacity
              /\ mailbox' = [mailbox EXCEPT ![sd_idx] = Append(@, Shutdown)]
              /\ sd_idx' = sd_idx + 1
              /\ UNCHANGED << r_pc, r_mail, r_msg, etcd_holder >>
    /\ UNCHANGED << query_vars, stage_result, db_vars, inst_vars, client_vars, sh_pc, start_offset, next_offset,
                    buffer, curr_batch_byte_size, last_committed_period, watch, cursor,
                    slots_seen, max_slot_seen, background_commit_slot_seen, dispatched,
                    evictions, loop_exit, detached_commits, spawned_commits >>

\* try_join_all(shard_handles).await? : only a JoinError is an error here, the
\* anyhow::Result each shard returned is not looked at
JoinAllResult(shard_pcs) == "done"

RouterJoin ==
    /\ r_pc = "shutdown"
    /\ sd_idx = num_shards
    /\ \A s \in Shards : sh_pc[s] \in {"done", "failed"}
    /\ RouterEnds(JoinAllResult(sh_pc))
    /\ UNCHANGED << query_vars, stage_result, db_vars, inst_vars, client_vars, shard_vars, cursor, sd_idx,
                    slots_seen, max_slot_seen, background_commit_slot_seen, dispatched,
                    evictions, loop_exit, detached_commits, spawned_commits >>

\* The caller drops the sink without calling shutdown
DropSink(i) ==
    /\ pc[i] = "running"
    /\ pc' = [pc EXCEPT ![i] = "dropped"]
    /\ UNCHANGED << query_vars, stage_result, db_vars, etcd_holder, shard_offsets, restart, budget, client_vars, shard_vars,
                    router_vars >>

----------------------------------------------------------------------------
\* ProducerQueries (yellowstone_log/consumer_group/producer_queries.rs)

\* Producer ids present in the tables
Producers == {1, 2}
\* etcd revisions
Revisions == {1, 2}
\* CommitmentLevel values
CommitmentLevels == {"processed", "confirmed"}
\* a producer without a producer_info row
NoLevel == "none"
\* opt_slot_range: None, or start..=end (empty when start > end)
NoRange == [some |-> FALSE]
SlotRanges == {NoRange} \cup { [some |-> TRUE, start |-> a, end |-> b] : a, b \in Slots }
\* the slots of start..=end
RangeSlots(range) == { x \in Slots : range.start <= x /\ x <= range.end }

\* a producer without a producer_lock row / without a lock key
NoRow == [exists |-> FALSE]
NoKey == [present |-> FALSE]
LockRows ==
    {NoRow} \cup { [exists |-> TRUE, is_ready |-> rdy, revision |-> rev,
                    execution_id |-> << "exec", rev >>] :
                      rdy \in BOOLEAN, rev \in Revisions }
EtcdKeys == {NoKey} \cup { [present |-> TRUE, mod_revision |-> rev] : rev \in Revisions }

\* LIST_PRODUCER_LOCKS: SELECT ... FROM producer_lock WHERE is_ready = true
list_producer_locks(locks) ==
    { p \in Producers : locks[p].exists /\ locks[p].is_ready }

\* get(producer_lock_prefix, with_prefix): the producers that have a lock key
etcd_producer_lock(kvs) == { p \in Producers : kvs[p].present }

\* Mutation: the revisions are not compared
RevisionMatches_Any(lock_revision, current_etcd_revision) == TRUE

\* lock_info.revision == current_etcd_revision
RevisionMatches(lock_revision, current_etcd_revision) ==
    lock_revision = current_etcd_revision

\* list_living_producers: the ready rows, retained when the producer has a key whose
\* mod_revision is the revision of the row
list_living_producers(locks, kvs) ==
    { p \in list_producer_locks(locks) :
        IF p \in etcd_producer_lock(kvs)
          THEN RevisionMatches(locks[p].revision, kvs[p].mod_revision)
          ELSE FALSE }

\* LIST_PRODUCER_WITH_COMMITMENT_LEVEL
list_producer_with_commitment_level(infos, commitment_level) ==
    { p \in Producers : infos[p] = commitment_level }

\* list_producer_with_slot: SELECT producer_id FROM slot_producer_seen_mv WHERE slot IN (..)
list_producer_with_slot(mv, range) ==
    { p \in Producers : \E x \in RangeSlots(range) : << p, x >> \in mv }

\* Mutation: among the minimal entries the last one, in key order
MinByKey_Last(elligible, counts) ==
    CHOOSE p \in elligible :
        \A q \in elligible : counts[p] < counts[q] \/ (counts[p] = counts[q] /\ p >= q)

\* min_by_key over the BTreeMap: the first of the minimal entries, in key order
MinByKey(elligible, counts) ==
    CHOOSE p \in elligible :
        \A q \in elligible : counts[p] < counts[q] \/ (counts[p] = counts[q] /\ p <= q)

\* anyhow::Error carrying e
Err(e) == [ok |-> FALSE, error |-> e]

\* Mutation: the commitment level is tested before the living producers
get_producer_id_with_least_assigned_consumer_LevelFirst(locks, kvs, infos, mv, counts, opt_slot_range, commitment_level) ==
    LET living_producers == list_living_producers(locks, kvs)
        producers_with_commitment_level ==
            list_producer_with_commitment_level(infos, commitment_level)
        elligible_producers == producers_with_commitment_level \cap living_producers
        retained == IF opt_slot_range.some
                      THEN elligible_producers \cap list_producer_with_slot(mv, opt_slot_range)
                      ELSE elligible_producers
    IN  IF producers_with_commitment_level = {} THEN Err(<< "ImpossibleCommitmentLevel" >>)
        ELSE IF living_producers = {} THEN Err(<< "NoActiveProducer" >>)
        ELSE IF elligible_producers = {} THEN Err(<< "ImpossibleTimelineSelection" >>)
        ELSE IF retained = {} THEN Err(<< "ImpossibleSlotOffset", opt_slot_range.end >>)
        ELSE LET p == MinByKey(retained, counts)
             IN [ok |-> TRUE, producer_id |-> p, execution_id |-> locks[p].execution_id]

\* get_producer_id_with_least_assigned_consumer
get_producer_id_with_least_assigned_consumer(locks, kvs, infos, mv, counts, opt_slot_range, commitment_level) ==
    LET living_producers == list_living_producers(locks, kvs)
        producers_with_commitment_level ==
            list_producer_with_commitment_level(infos, commitment_level)
        elligible_producers == producers_with_commitment_level \cap living_producers
        retained == IF opt_slot_range.some
                      THEN elligible_producers \cap list_producer_with_slot(mv, opt_slot_range)
                      ELSE elligible_producers
    IN  IF living_producers = {} THEN Err(<< "NoActiveProducer" >>)
        ELSE IF producers_with_commitment_level = {}
               THEN Err(<< "ImpossibleCommitmentLevel" >>)
        ELSE IF elligible_producers = {} THEN Err(<< "ImpossibleTimelineSelection" >>)
        ELSE IF retained = {} THEN Err(<< "ImpossibleSlotOffset", opt_slot_range.end >>)
        ELSE LET p == MinByKey(retained, counts)
             IN [ok |-> TRUE, producer_id |-> p, execution_id |-> locks[p].execution_id]

\* No ProducerQueries call was made
NoCall == [op |-> "none"]

\* A consumer calls list_living_producers. The calls only read: one call is followed
\* from each content of the tables.
ListLivingProducers ==
    /\ query_result = NoCall
    /\ query_result' = [op |-> "list_living_producers",
                        living |-> list_living_producers(lock_rows, etcd_kvs)]
    /\ UNCHANGED << db_vars, etcd_holder, inst_vars, client_vars, shard_vars, router_vars,
                    lock_rows, etcd_kvs, info_rows, slot_producer_seen_mv,
                    producer_consumer_mapping_mv, seek_vars, stage_result >>

\* A consumer calls get_producer_id_with_least_assigned_consumer
GetProducerIdWithLeastAssignedConsumer ==
    /\ query_result = NoCall
    /\ \E opt_slot_range \in SlotRanges, commitment_level \in CommitmentLevels :
          query_result' =
              [op |-> "get_producer_id_with_least_assigned_consumer",
               opt_slot_range |-> opt_slot_range,
               commitment_level |-> commitment_level,
               result |-> get_producer_id_with_least_assigned_consumer(
                              lock_rows, etcd_kvs, info_rows, slot_producer_seen_mv,
                              producer_consumer_mapping_mv, opt_slot_range,
                              commitment_level)]
    /\ UNCHANGED << db_vars, etcd_holder, inst_vars, client_vars, shard_vars, router_vars,
                    lock_rows, etcd_kvs, info_rows, slot_producer_seen_mv,
                    producer_consumer_mapping_mv, seek_vars, stage_result >>

\* The producer a consumer seeks in has no row
NoSeekTables ==
    /\ seek_producer_info = NoRow
    /\ seek_producer_lock = NoRow
    /\ seek_producer_slot_seen = [ x \in Slots |-> NoRow ]

\* The tables as ProducerQueries may find them
InitQueryTables ==
    /\ lock_rows \in [Producers -> LockRows]
    /\ etcd_kvs \in [Producers -> EtcdKeys]
    /\ info_rows \in [Producers -> CommitmentLevels \cup {NoLevel}]
    /\ slot_producer_seen_mv \in SUBSET (Producers \X Slots)
    /\ producer_consumer_mapping_mv \in [Producers -> {0, 1}]
    /\ query_result = NoCall
    /\ NoSeekTables
    /\ stage_result = NoStage

\* No consumer: the tables of the other producers are left out
NoQueryTables ==
    /\ lock_rows = [ p \in Producers |-> NoRow ]
    /\ etcd_kvs = [ p \in Producers |-> NoKey ]
    /\ info_rows = [ p \in Producers |-> NoLevel ]
    /\ slot_producer_seen_mv = {}
    /\ producer_consumer_mapping_mv = [ p \in Producers |-> 0 ]
    /\ query_result = NoCall
    /\ NoSeekTables
    /\ stage_result = NoStage

NextQueries ==
    \/ ListLivingProducers
    \/ GetProducerIdWithLeastAssignedConsumer

----------------------------------------------------------------------------
\* ProducerQueries::compute_offset (producer_queries.rs)

\* Offsets found in the rows of the producer a consumer seeks in
SeekOffsets == 0..2
\* num_shards of its producer_info row
SeekNumShards == {1, 2}
\* shard ids of a producer registered with n shards
ShardIds(n) == 0..(n - 1)
\* sentinel of types.rs
UNDEFINED_SLOT == -1

\* max_revision_opt: None or Some(revision)
NoRevision == [some |-> FALSE]
MaxRevisions == {NoRevision} \cup { [some |-> TRUE, revision |-> r] : r \in Revisions }

\* SeekLocation
Latest == [type |-> "Latest"]
Earliest == [type |-> "Earliest"]
SeekLocations ==
    {Latest, Earliest}
      \cup { [type |-> "SlotApprox", desired_slot |-> d, min_slot |-> m] : d, m \in Slots }

\* producer_info row: num_shards
InfoRows == {NoRow} \cup { [exists |-> TRUE, num_shards |-> n] : n \in SeekNumShards }

\* minimum_shard_offset: shard -> (offset, slot), null when the producer is not ready
MinimumShardOffsetMaps ==
    {NullMap} \cup
    UNION { { [ s \in ShardIds(n) |-> [offset |-> o[s], slot |-> x] ] :
                o \in [ShardIds(n) -> SeekOffsets], x \in Slots } : n \in SeekNumShards }

\* producer_lock row: revision, minimum_shard_offset
SeekLockRows ==
    {NoRow} \cup { [exists |-> TRUE, revision |-> r, minimum_shard_offset |-> m] :
                     r \in Revisions, m \in MinimumShardOffsetMaps }

\* producer_slot_seen row of a slot: revision, shard_offset_map
SlotSeenRows ==
    {NoRow} \cup { [exists |-> TRUE, revision |-> r, shard_offset_map |-> m] :
                     r \in Revisions,
                     m \in UNION { [ShardIds(n) -> SeekOffsets] : n \in SeekNumShards } }

\* Mutation: a revision is stale when it is not greater than the remote one
RevisionIsStale_OrEqual(max_revision_opt, remote_revision) ==
    max_revision_opt.some /\ ~(max_revision_opt.revision > remote_revision)

\* anyhow::ensure!(max_revision >= remote_revision, StaleRevision(max_revision))
RevisionIsStale(max_revision_opt, remote_revision) ==
    max_revision_opt.some /\ ~(max_revision_opt.revision >= remote_revision)

\* get_min_offset_for_producer
get_min_offset_for_producer(lock, max_revision_opt) ==
    IF ~lock.exists THEN Err(<< "first_row_typed: no row" >>)
    ELSE IF RevisionIsStale(max_revision_opt, lock.revision)
           THEN Err(<< "StaleRevision", max_revision_opt.revision >>)
    ELSE IF DOMAIN lock.minimum_shard_offset = {}
           THEN Err(<< "Producer lock exists, but its minimum shard offset is not set." >>)
    ELSE [ok |-> TRUE, offsets |-> lock.minimum_shard_offset]

\* GET_SHARD_OFFSET_AT_SLOT_APPROX: slot <= ? AND slot >= ? ORDER BY slot desc LIMIT 1
get_slot_shard_offsets(seen, slot, min_slot, max_revision_opt) ==
    LET in_range == { x \in Slots : x <= slot /\ x >= min_slot /\ seen[x].exists }
    IN  IF in_range = {} THEN [ok |-> TRUE, some |-> FALSE]
        ELSE LET slot_approx == Max(in_range)
                 row == seen[slot_approx]
             IN  IF RevisionIsStale(max_revision_opt, row.revision)
                   THEN Err(<< "StaleRevision", max_revision_opt.revision >>)
                   ELSE [ok |-> TRUE, some |-> TRUE,
                         offsets |-> [ s \in DOMAIN row.shard_offset_map |->
                                         [offset |-> row.shard_offset_map[s],
                                          slot |-> slot_approx] ]]

\* Mutation: an offset equal to the minimum counts as reachable
OffsetReachable_OrEqual(offset1, offset2) == offset1 >= offset2

\* .filter(|(offset2, _)| offset1 > offset2)
OffsetReachable(offset1, offset2) == offset1 > offset2

\* are_shard_offset_reachable
are_shard_offset_reachable(shard_offsets_contain_slot, minium_producer_offsets) ==
    \A shard_id \in DOMAIN shard_offsets_contain_slot :
        /\ shard_id \in DOMAIN minium_producer_offsets
        /\ OffsetReachable(shard_offsets_contain_slot[shard_id].offset,
                           minium_producer_offsets[shard_id].offset)

\* Mutation: no adjustment
Adjustment_None(seek_loc) == 0

\* adjustment: -1 for Earliest and SlotApprox, 0 for Latest
Adjustment(seek_loc) == IF seek_loc.type = "Latest" THEN 0 ELSE -1

\* slot of the row max_offset_for_shard_period returns: the row last written at the
\* greatest offset of partition (s, period)
MaxOffsetSlot(tbl, s, period) ==
    LET rows == Flatten(tbl[s])
        offs == PartitionOffsets(tbl, s, period)
    IN  IF offs = {} THEN UNDEFINED_SLOT
        ELSE rows[Max({ k \in 1..Len(rows) : rows[k].offset = Max(offs) })].slot

\* sink::get_max_shard_offsets_for_producer(session, producer_id, num_shards), with the
\* slot of each pair
LatestShardOffsets(commits, tbl, n) ==
    LET cur == current_period_foreach_shard(commits)
        max_offsets == get_max_shard_offsets_for_producer(commits, tbl)
    IN  [ s \in ShardIds(n) |->
            [offset |-> max_offsets[s], slot |-> MaxOffsetSlot(tbl, s, cur[s])] ]

\* the match on seek_loc of compute_offset
SeekShardOffsetPairs(info, lock, seen, commits, tbl, seek_loc, max_revision_opt) ==
    IF seek_loc.type = "Latest"
      THEN [ok |-> TRUE, offsets |-> LatestShardOffsets(commits, tbl, info.num_shards)]
    ELSE IF seek_loc.type = "Earliest"
      THEN get_min_offset_for_producer(lock, max_revision_opt)
    ELSE LET minium_producer_offsets == get_min_offset_for_producer(lock, max_revision_opt)
             shard_offsets_contain_slot ==
                 get_slot_shard_offsets(seen, seek_loc.desired_slot, seek_loc.min_slot,
                                        max_revision_opt)
         IN  IF ~minium_producer_offsets.ok THEN minium_producer_offsets
             ELSE IF ~shard_offsets_contain_slot.ok THEN shard_offsets_contain_slot
             ELSE IF ~shard_offsets_contain_slot.some
                    THEN Err(<< "ImpossibleSlotOffset", seek_loc.desired_slot >>)
             ELSE IF ~are_shard_offset_reachable(shard_offsets_contain_slot.offsets,
                                                 minium_producer_offsets.offsets)
                    THEN Err(<< "ImpossibleSlotOffset", seek_loc.desired_slot >>)
             ELSE [ok |-> TRUE, offsets |-> shard_offsets_contain_slot.offsets]

\* compute_offset
compute_offset(info, lock, seen, commits, tbl, seek_loc, max_revision_opt) ==
    IF ~info.exists THEN Err(<< "producer does not exists" >>)
    ELSE LET located == SeekShardOffsetPairs(info, lock, seen, commits, tbl, seek_loc,
                                             max_revision_opt)
         IN  IF ~located.ok THEN located
             ELSE LET shard_offset_pairs ==
                          [ s \in DOMAIN located.offsets |->
                              [offset |-> located.offsets[s].offset + Adjustment(seek_loc),
                               slot |-> located.offsets[s].slot] ]
                  IN  IF Cardinality(DOMAIN shard_offset_pairs) # info.num_shards
                        THEN Err(<< "mismatch producer num shards and computed shard offset" >>)
                        ELSE [ok |-> TRUE, shard_offset_pairs |-> shard_offset_pairs]

\* A consumer calls compute_offset on the rows of the producer; Latest reads the log and
\* the period commits of the producer
ComputeOffset ==
    /\ query_result = NoCall
    /\ \E seek_loc \in SeekLocations, max_revision_opt \in MaxRevisions :
          query_result' =
              [op |-> "compute_offset",
               seek_loc |-> seek_loc,
               max_revision_opt |-> max_revision_opt,
               result |-> compute_offset(seek_producer_info, seek_producer_lock,
                                         seek_producer_slot_seen, period_commit, log,
                                         seek_loc, max_revision_opt)]
    /\ UNCHANGED << db_vars, etcd_holder, inst_vars, client_vars, shard_vars, router_vars,
                    lock_rows, etcd_kvs, info_rows, slot_producer_seen_mv,
                    producer_consumer_mapping_mv, seek_vars, stage_result >>

\* The rows of the producer as compute_offset may find them
InitSeekTables ==
    /\ seek_producer_info \in InfoRows
    /\ seek_producer_lock \in SeekLockRows
    /\ seek_producer_slot_seen \in [Slots -> SlotSeenRows]

\* compute_offset called on rows of any content; no sink of this process runs
InitSeek ==
    /\ InitDb
    /\ InitSink
    /\ pc = [ i \in Instances |-> "off" ]
    /\ budget = 0
    /\ lock_rows = [ p \in Producers |-> NoRow ]
    /\ etcd_kvs = [ p \in Producers |-> NoKey ]
    /\ info_rows = [ p \in Producers |-> NoLevel ]
    /\ slot_producer_seen_mv = {}
    /\ producer_consumer_mapping_mv = [ p \in Producers |-> 0 ]
    /\ query_result = NoCall
    /\ InitSeekTables
    /\ stage_result = NoStage

NextSeek == ComputeOffset

SpecSeek == InitSeek /\ [][NextSeek]_vars

----------------------------------------------------------------------------
\* The staging step of a shard worker (into_daemon, need_flush to buffer.push), applied
\* alone to the states a worker can be in when it receives an insert command

\* Offsets of the oldest buffered event
StageFirstOffsets == {0, 1}

\* curr_batch_byte_size of a buffer: 0 after clear_buffer, plus msg_byte_size per push
RECURSIVE BatchByteSize(_)
BatchByteSize(buf) ==
    IF buf = << >> THEN 0 ELSE buf[1].size + BatchByteSize(Tail(buf))

\* Insert commands a worker may receive
StageCommands ==
    { [type |-> "Insert", id |-> 0, slot |-> x, size |-> z] : x \in Slots, z \in MsgSizes }

\* Buffers of a worker between two commands: consecutive offsets, and every event after
\* the first was pushed without a flush
StageBuffers ==
    { buf \in UNION { [1..n -> [id : {0}, slot : Slots, size : MsgSizes,
                                offset : 0..(Max(StageFirstOffsets) + n - 1)]] :
                      n \in 0..DEFAULT_SHARD_MAX_BUFFER_CAPACITY } :
        /\ buf # << >> => buf[1].offset \in StageFirstOffsets
        /\ \A k \in 2..Len(buf) :
              /\ buf[k].offset = buf[k - 1].offset + 1
              /\ LET before == SubSeq(buf, 1, k - 1)
                 IN  ~need_flush(before, BatchByteSize(before), buf[k].size, FALSE) }

\* One insert command handled by a worker whose buffer is buf and whose rows are not
\* yet written; the batch request succeeds
StageOneEvent ==
    /\ stage_result = NoStage
    /\ \E buf \in StageBuffers, msg \in StageCommands, timeout_elapsed \in BOOLEAN,
          first \in StageFirstOffsets :
          LET offset == IF buf = << >> THEN first
                                       ELSE buf[Len(buf)].offset + 1
              blockchain_event == as_blockchain_event(msg, offset)
          IN  stage_result' =
                 [op |-> "stage",
                  buffer |-> buf,
                  curr_batch_byte_size |-> BatchByteSize(buf),
                  blockchain_event |-> blockchain_event,
                  timeout_elapsed |-> timeout_elapsed,
                  result |-> StageEvent(<< >>, buf, BatchByteSize(buf),
                                        blockchain_event, timeout_elapsed)]
    /\ UNCHANGED << query_vars, db_vars, etcd_holder, inst_vars, client_vars, shard_vars,
                    router_vars >>

\* No sink of this process runs
InitStage ==
    /\ InitDb
    /\ InitSink
    /\ pc = [ i \in Instances |-> "off" ]
    /\ budget = 0
    /\ NoQueryTables

NextStage == StageOneEvent

SpecStage == InitStage /\ [][NextStage]_vars

----------------------------------------------------------------------------
Next ==
    \/ \E i \in Instances : InsertProducerInfo(i)
    \/ \E i \in Instances : TryLock(i)
    \/ \E i \in Instances : LoadProducerLockState(i)
    \/ \E i \in Instances : RecoverOffsets(i)
    \/ \E i \in Instances : SetMinimumProducerOffsets(i)
    \/ \E i \in Instances : SpawnShardsAndRouter(i)
    \/ \E i \in Instances : StartupFail(i)
    \/ \E i \in Instances : LogEvent(i)
    \/ \E i \in Instances : CallShutdown(i)
    \/ \E i \in Instances : ShutdownReturn(i)
    \/ \E i \in Instances : DropSink(i)
    \/ \E s \in Shards : ShardCommitPeriod(s)
    \/ \E s \in Shards : ShardShutdown(s)
    \/ \E s \in Shards : ShardInsert(s)
    \/ \E s \in Shards : ShardRecvClosed(s)
    \/ RouterRecv
    \/ RouterAwaitBackground
    \/ BackgroundCommitSlotSeen
    \/ RouterReserve
    \/ RouterSendShutdown
    \/ RouterJoin

\* One sink instance is started, and its caller logs up to MaxEvents events
Init ==
    /\ InitDb
    /\ InitSink
    /\ pc = [ i \in Instances |-> IF i = "a" THEN "idle" ELSE "off" ]
    /\ budget = MaxEvents
    /\ NoQueryTables

\* Every instance of the fleet may be started, at any time, with the same producer_id
InitFleet ==
    /\ InitDb
    /\ InitSink
    /\ pc = [ i \in Instances |-> "idle" ]
    /\ budget = FleetEvents
    /\ NoQueryTables

\* ProducerQueries called on tables of any content; no sink of this process runs
InitQueries ==
    /\ InitDb
    /\ InitSink
    /\ pc = [ i \in Instances |-> "off" ]
    /\ budget = 0
    /\ InitQueryTables

Spec == Init /\ [][Next]_vars

SpecFleet == InitFleet /\ [][Next]_vars

SpecQueries == InitQueries /\ [][NextQueries]_vars

\* The tasks the sink spawned are scheduled fairly (tokio runs a task that can make
\* progress); the caller of the sink is free to stop calling it
Fairness ==
    /\ \A s \in Shards : /\ WF_vars(ShardCommitPeriod(s))
                         /\ WF_vars(ShardShutdown(s))
                         /\ WF_vars(ShardInsert(s))
                         /\ WF_vars(ShardRecvClosed(s))
    /\ WF_vars(RouterRecv)
    /\ WF_vars(RouterAwaitBackground)
    /\ WF_vars(BackgroundCommitSlotSeen)
    /\ WF_vars(RouterReserve)
    /\ WF_vars(RouterSendShutdown)
    /\ WF_vars(RouterJoin)

SpecLive == Init /\ [][Next]_vars /\ Fairness

\* A caller inside shutdown() is a task like the others: once router_handle is ready,
\* self.router_handle.await returns
ShutdownFairness == \A i \in Instances : WF_vars(ShutdownReturn(i))

SpecShutdown == Init /\ [][Next]_vars /\ Fairness /\ ShutdownFairness

----------------------------------------------------------------------------
\* Properties

\* Events a shard worker has staged so far, in staging order: the rows of the batches
\* it wrote, then its buffer
Staged(s) == Flatten(log[s]) \o buffer[s]

\* Instances whose ScyllaSink::new returned Ok
Spawned(i) == pc[i] \in {"running", "shutting", "stopped", "stopped_err", "dropped"}

\* C1: in a run, the events a shard worker stages (and so the rows it writes) carry the
\* offsets start_offset, start_offset + 1, ... without gap or repeat, and next_offset
\* is start_offset plus the number of staged events while the worker runs
C1_DenseOffsets ==
    \A s \in Shards :
        LET staged == Staged(s) IN
        sh_pc[s] # "none" =>
            /\ \A k \in 1..Len(staged) : staged[k].offset = start_offset[s] + k - 1
            /\ next_offset[s] >= start_offset[s]
            /\ sh_pc[s] = "run" => next_offset[s] = start_offset[s] + Len(staged)

C1_Witness ==
    \E s \in Shards : sh_pc[s] = "done" /\ Len(Flatten(log[s])) >= 2

C4_PeriodCommitBeforeBoundary ==
    \A s \in Shards : LET staged == Staged(s) IN \A k \in 1..Len(staged) :
        LET o == staged[k].offset IN
        (Rem(o, SHARD_OFFSET_MODULO) = 0 /\ o > 0) =>
            (Div(o, SHARD_OFFSET_MODULO) - 1) \in Range(period_commit[s])

C4_Witness ==
    \E s \in Shards : \E e \in LogRows(log, s) :
        Rem(e.offset, SHARD_OFFSET_MODULO) = 0 /\ e.offset > 0

\* C5: of the instances started with the same producer_id, at most one completes
\* ScyllaSink::new; while one has, every other instance has not started or has ended
\* with an error
C5_SingleProducer ==
    \A i, j \in Instances :
        (i # j /\ Spawned(i)) => pc[j] \in {"idle", "aborted", "failed"}

C5_Witness ==
    \E i, j \in Instances :
        /\ Spawned(i)
        /\ pc[j] = "aborted"
        /\ \E s \in Shards : log[s] # << >>

\* C6: a ready producer_lock row has a minimum_shard_offset entry for every shard and
\* no other, and the shard workers exist only when the row is ready
C6_ReadyHasAllShards ==
    /\ producer_lock.is_ready =>
          /\ DOMAIN producer_lock.minimum_shard_offset = Shards
          /\ Cardinality(DOMAIN producer_lock.minimum_shard_offset) = num_shards
    /\ (\E s \in Shards : sh_pc[s] # "none") => producer_lock.is_ready

C6_Witness ==
    /\ producer_lock.is_ready
    /\ \A s \in Shards : sh_pc[s] = "run"

\* C7: on a fresh start (no period-commit row, no log row) every shard worker is given
\* next_offset = 0 and the first event of each shard is stamped with offset 0.
\* Under Spec the only instance recovers from the empty tables of InitDb.
C7_FreshStartAtZero ==
    \A s \in Shards :
        sh_pc[s] # "none" =>
            /\ start_offset[s] = 0
            /\ Staged(s) # << >> => Staged(s)[1].offset = 0

\* The last offset the recovery is documented to yield for shard s: the greatest offset
\* of partition (s, current_period), or current_period * MODULO - 1 when it is empty
C8_DocumentedLastOffset(s) ==
    LET current_period == IF period_commit[s] = << >>
                            THEN 0 ELSE Max(Range(period_commit[s])) + 1
        offs == { e.offset : e \in { r \in LogRows(log, s) :
                                       Div(r.offset, SHARD_OFFSET_MODULO) = current_period } }
    IN IF offs = {} THEN current_period * SHARD_OFFSET_MODULO - 1 ELSE Max(offs)

\* C8: the next_offset that sink startup derives from offset recovery is, for every
\* shard, the documented last offset plus one (the tables do not change between the
\* recovery and the spawn of the workers)
C8_RecoveredNextOffset ==
    \A i \in Instances :
        pc[i] \in {"recovered", "ready"} =>
            \A s \in Shards :
                ShardNewNextOffset(shard_offsets[i][s]) = C8_DocumentedLastOffset(s) + 1

\* C9: a sink started with the producer_id of a run that logged its events and was shut
\* down cleanly is not refused
C9_RestartSucceeds ==
    \A i \in restart : sent = budget => pc[i] # "aborted"

\* C10: when no database request failed, once shutdown() has returned every event that
\* log_* accepted has a row in the log; a worker that ended on Shutdown has an empty
\* buffer; nothing follows a Shutdown in a shard mailbox
C10_ShutdownPersistsAll ==
    /\ \A i \in Instances :
          (db_faults = 0 /\ pc[i] \in {"stopped", "stopped_err"}) =>
              \A id \in 0..(sent - 1) :
                  \E s \in Shards : \E e \in LogRows(log, s) : e.id = id
    /\ \A s \in Shards : sh_pc[s] = "done" => buffer[s] = << >>
    /\ \A s \in Shards : \A k \in 1..Len(mailbox[s]) :
          mailbox[s][k].type = "Shutdown" => k = Len(mailbox[s])

C10_Witness ==
    /\ pc["a"] = "stopped"
    /\ db_faults = 0
    /\ sent = budget
    /\ \E s \in Shards : \E k \in 1..Len(log[s]) : Len(log[s][k]) >= 2

\* C11: shutdown() does not return Ok when a shard worker ended with an error: a failed
\* period commit or a failed batch write, the flush performed on Shutdown included
C11_ShardErrorSurfaces ==
    \A i \in Instances :
        pc[i] = "stopped" => \A s \in Shards : sh_pc[s] # "failed"

\* C12: when the router left its loop because the reservation on the mailbox of shard
\* `cursor` failed, then once the router task has ended every other shard worker has
\* received Shutdown, flushed its buffer and returned Ok
C12_OrderlyShutdownOnClosedShard ==
    (loop_exit = "closed" /\ r_pc \in {"done", "failed"}) =>
        \A s \in Shards \ {cursor} : sh_pc[s] = "done" /\ buffer[s] = << >>

\* C13: when the router left its loop on an explicit Shutdown or on the close of its
\* inbound mailbox, then once the router task has ended it has sent Shutdown to every
\* one of the N shard workers and all N shard workers have terminated
C13_ShutdownReachesAllShards ==
    (loop_exit = "shutdown" /\ r_pc \in {"done", "failed"}) =>
        /\ sd_idx = num_shards
        /\ \A s \in Shards : sh_pc[s] \in {"done", "failed"}

\* The greatest offset of shard s whose batch write succeeded, or the offset before the
\* one given to Shard::new when no batch of the shard was written
C14_LastFlushedOffset(s) ==
    IF LogRows(log, s) = {}
      THEN start_offset[s] - 1
      ELSE Max({ e.offset : e \in LogRows(log, s) })

\* C14: the value the router reads on the watch channel of shard s is never greater
\* than the greatest offset of shard s whose batch write to the log succeeded
C14_WatchIsFlushedOffset ==
    \A s \in Shards :
        sh_pc[s] # "none" => watch[s] <= C14_LastFlushedOffset(s)

\* The slots of the slot-seen writes the router issued in this run, in issue order: the
\* rows written, then the write in flight or failed
IssuedSlotWrites ==
    [ k \in 1..Len(slot_seen) |-> slot_seen[k].slot ]
      \o (IF background_commit_slot_seen.state \in {"running", "err"}
            THEN << background_commit_slot_seen.slot >> ELSE << >>)

\* Number of slot-seen writes issued for slot x
WritesOf(x) == LET issued == IssuedSlotWrites IN Cardinality({ k \in 1..Len(issued) : issued[k] = x })

\* C15 as stated: for every slot value at most one slot-seen write is issued per run,
\* for any sequence of inbound commands
C15_OneWritePerSlot ==
    \A x \in Slots : WritesOf(x) <= 1

\* C15 as amended: a slot-seen write is issued for a slot only when the slot is not in
\* slots_seen, so a slot is written once, and once more after each time it was evicted
\* from slots_seen; a run that evicts nothing writes every slot at most once
C15_OneWritePerSlotAndEviction ==
    \A x \in Slots : WritesOf(x) <= 1 + evictions[x]

\* three commands, the first and the third of the same slot, one write for that slot
C15_Witness ==
    /\ Len(dispatched) = 3
    /\ \E x \in Slots : WritesOf(x) = 1 /\ evictions[x] = 0
    /\ \E s \in Shards : \E e1, e2 \in LogRows(log, s) \cup Range(buffer[s]) :
          e1.id # e2.id /\ e1.slot = e2.slot /\ WritesOf(e1.slot) = 1

\* Number of times slot x was inserted into slots_seen
C16_Insertions(x) == evictions[x] + (IF x \in slots_seen THEN 1 ELSE 0)

\* Slot x was inserted and the router has not yet reached the spawn of its write
C16_Pending(x) == IF r_pc = "await_bg" /\ r_msg.slot = x THEN 1 ELSE 0

C17_ObservedSlots ==
    Range(IssuedSlotWrites)
      \cup (IF r_pc = "await_bg" THEN {r_msg.slot} ELSE {})

\* C17: max_slot_seen never decreases; it is at least every slot found new (a late slot
\* leaves it unchanged) and, as long as no slot-seen write failed, it is the greatest of
\* them; the write of every slot found new is issued, for a late slot as for any other
C17_MaxSlotSeenMonotonic ==
    /\ [][max_slot_seen' >= max_slot_seen]_vars
    /\ [](\A x \in C17_ObservedSlots : x <= max_slot_seen)
    /\ [](background_commit_slot_seen.state # "err" =>
             max_slot_seen = Max({-1} \cup C17_ObservedSlots))
    /\ [][ (r_pc = "await_bg" /\ r_pc' = "reserve") =>
              /\ background_commit_slot_seen'.state = "running"
              /\ background_commit_slot_seen'.slot = r_msg.slot ]_vars

\* a slot-seen row was written for a slot smaller than max_slot_seen, after the row of
\* the greater slot
C17_Witness ==
    \E j, k \in 1..Len(slot_seen) :
        /\ j < k
        /\ slot_seen[k].slot < slot_seen[j].slot
        /\ max_slot_seen = slot_seen[j].slot

\* Number of slot-seen writes in flight
C18_InFlight ==
    Cardinality(detached_commits)
      + (IF background_commit_slot_seen.state = "running" THEN 1 ELSE 0)

\* C18: at most one slot-seen write is in flight; a slot-seen task is spawned only when
\* none is in flight; the rows of producer_slot_seen are written in the order in which
\* their tasks were spawned, which is the order in which the slots were found new
C18_SerialSlotCommits ==
    /\ [](C18_InFlight <= 1)
    /\ [][ Len(spawned_commits') > Len(spawned_commits) => C18_InFlight = 0 ]_vars
    /\ [](/\ Len(slot_seen) <= Len(spawned_commits)
          /\ \A k \in 1..Len(slot_seen) : slot_seen[k].slot = spawned_commits[k])

\* the router found a new slot and waits for the previous write, which is in flight
C18_Witness ==
    /\ r_pc = "await_bg"
    /\ background_commit_slot_seen.state = "running"
    /\ r_msg.slot # background_commit_slot_seen.slot
    /\ Len(slot_seen) >= 1

\* The producers with a ready producer_lock row and a lock key in etcd whose mod_revision
\* is the revision of the row
C19_Living ==
    { p \in Producers :
        /\ lock_rows[p].exists
        /\ lock_rows[p].is_ready
        /\ etcd_kvs[p].present
        /\ lock_rows[p].revision = etcd_kvs[p].mod_revision }

\* C19: list_living_producers returns exactly the producers with a ready lock row, a
\* lock key in etcd and a row revision equal to the key's mod_revision; a row with
\* another revision, or without a key, is not returned
C19_LivingProducers ==
    query_result.op = "list_living_producers" =>
        /\ query_result.living = C19_Living
        /\ \A p \in query_result.living :
              etcd_kvs[p].present /\ lock_rows[p].revision = etcd_kvs[p].mod_revision

\* one producer is returned while the other, ready and with a key, has a stale revision
C19_Witness ==
    /\ query_result.op = "list_living_producers"
    /\ \E p, q \in Producers :
          /\ p \in query_result.living
          /\ q \notin query_result.living
          /\ lock_rows[q].exists /\ lock_rows[q].is_ready /\ etcd_kvs[q].present
          /\ lock_rows[q].revision # etcd_kvs[q].mod_revision

\* The producers whose producer_info row has the level / that have a slot in the range
C20_AtLevel(level) == { p \in Producers : info_rows[p] = level }
C20_WithSlot(range) ==
    { p \in Producers :
        \E x \in Slots : range.start <= x /\ x <= range.end
                         /\ << p, x >> \in slot_producer_seen_mv }

\* The failure the documented precedence gives for a call, << >> when there is none
C20_DocumentedFailure(range, level) ==
    IF C19_Living = {} THEN << "NoActiveProducer" >>
    ELSE IF C20_AtLevel(level) = {} THEN << "ImpossibleCommitmentLevel" >>
    ELSE IF C19_Living \cap C20_AtLevel(level) = {} THEN << "ImpossibleTimelineSelection" >>
    ELSE IF range.some /\ C19_Living \cap C20_AtLevel(level) \cap C20_WithSlot(range) = {}
           THEN << "ImpossibleSlotOffset", range.end >>
    ELSE << >>

\* C20: get_producer_id_with_least_assigned_consumer fails with NoActiveProducer, else
\* ImpossibleCommitmentLevel, else ImpossibleTimelineSelection, else
\* ImpossibleSlotOffset(range.end), in this precedence, and returns a producer only when
\* none of the four conditions holds
C20_FailurePrecedence ==
    query_result.op = "get_producer_id_with_least_assigned_consumer" =>
        LET failure == C20_DocumentedFailure(query_result.opt_slot_range,
                                             query_result.commitment_level)
        IN  /\ query_result.result.ok <=> failure = << >>
            /\ ~query_result.result.ok => query_result.result.error = failure

\* no living producer and no producer at the requested level: NoActiveProducer comes first
C20_Witness ==
    /\ query_result.op = "get_producer_id_with_least_assigned_consumer"
    /\ C19_Living = {}
    /\ C20_AtLevel(query_result.commitment_level) = {}
    /\ \E p \in Producers : lock_rows[p].exists
    /\ ~query_result.result.ok
    /\ query_result.result.error = << "NoActiveProducer" >>

\* The producers a call may return: living, at the level, with a slot in the range
C21_Candidates(range, level) ==
    { p \in C19_Living \cap C20_AtLevel(level) : range.some => p \in C20_WithSlot(range) }

\* C21: a successful get_producer_id_with_least_assigned_consumer returns a producer
\* that is living, has the requested commitment level and a slot in the range when one
\* is given, whose number of assigned consumers is minimal among such producers, and
\* that has the smallest ProducerId among those of minimal count
C21_LeastAssignedProducer ==
    (query_result.op = "get_producer_id_with_least_assigned_consumer"
       /\ query_result.result.ok) =>
        LET candidates == C21_Candidates(query_result.opt_slot_range,
                                         query_result.commitment_level)
            p == query_result.result.producer_id
        IN  /\ p \in candidates
            /\ \A q \in candidates :
                  /\ producer_consumer_mapping_mv[p] <= producer_consumer_mapping_mv[q]
                  /\ producer_consumer_mapping_mv[p] = producer_consumer_mapping_mv[q]
                        => p <= q

\* two candidates covering the range: producer 1 without consumer, producer 2 with one;
\* and a call on two candidates of equal count
C21_Witness ==
    /\ query_result.op = "get_producer_id_with_least_assigned_consumer"
    /\ query_result.result.ok
    /\ query_result.opt_slot_range.some
    /\ C21_Candidates(query_result.opt_slot_range, query_result.commitment_level) = {1, 2}
    /\ producer_consumer_mapping_mv[1] = 0
    /\ producer_consumer_mapping_mv[2] = 1
    /\ query_result.result.producer_id = 1

C21_WitnessTie ==
    /\ query_result.op = "get_producer_id_with_least_assigned_consumer"
    /\ query_result.result.ok
    /\ C21_Candidates(query_result.opt_slot_range, query_result.commitment_level) = {1, 2}
    /\ producer_consumer_mapping_mv[1] = producer_consumer_mapping_mv[2]
    /\ query_result.result.producer_id = 1

\* The call recorded in query_result is compute_offset at seek location `type`
C22_Called(type) ==
    query_result.op = "compute_offset" /\ query_result.seek_loc.type = type

\* The producer is registered and its lock row exists
C22_Registered == seek_producer_info.exists /\ seek_producer_lock.exists

\* max_revision is given and smaller than the revision of the lock row
C22_Stale ==
    /\ query_result.max_revision_opt.some
    /\ query_result.max_revision_opt.revision < seek_producer_lock.revision

\* The lock row has a minimum offset for each of the producer's num_shards shards
C22_OffsetsSet ==
    DOMAIN seek_producer_lock.minimum_shard_offset = ShardIds(seek_producer_info.num_shards)

\* C22: compute_offset(producer, Earliest, max_revision) on a registered producer fails
\* with StaleRevision(max_revision) whenever max_revision is given and smaller than the
\* revision of the lock row, and only then; otherwise, the row having its minimum
\* offsets, it returns for every shard the row's entry with the offset decreased by 1
\* and the slot unchanged
C22_EarliestOffsets ==
    (C22_Called("Earliest") /\ C22_Registered) =>
        LET result == query_result.result
            minimum == seek_producer_lock.minimum_shard_offset
        IN  /\ C22_Stale =>
                  /\ ~result.ok
                  /\ result.error = << "StaleRevision", query_result.max_revision_opt.revision >>
            /\ (~result.ok /\ result.error[1] = "StaleRevision") => C22_Stale
            /\ (~C22_Stale /\ C22_OffsetsSet) =>
                  /\ result.ok
                  /\ DOMAIN result.shard_offset_pairs = DOMAIN minimum
                  /\ \A s \in DOMAIN minimum :
                        /\ result.shard_offset_pairs[s].offset = minimum[s].offset - 1
                        /\ result.shard_offset_pairs[s].slot = minimum[s].slot

\* max_revision = r, revision of the lock row r + 1: StaleRevision(r)
C22_Witness ==
    /\ C22_Called("Earliest")
    /\ C22_Registered
    /\ C22_OffsetsSet
    /\ query_result.max_revision_opt.some
    /\ seek_producer_lock.revision = query_result.max_revision_opt.revision + 1
    /\ ~query_result.result.ok
    /\ query_result.result.error = << "StaleRevision", query_result.max_revision_opt.revision >>

\* a call with max_revision equal to the revision of the row returns the offsets of two
\* shards, each decreased by 1
C22_WitnessOk ==
    /\ C22_Called("Earliest")
    /\ C22_Registered
    /\ seek_producer_info.num_shards = 2
    /\ query_result.max_revision_opt.some
    /\ seek_producer_lock.revision = query_result.max_revision_opt.revision
    /\ query_result.result.ok
    /\ \E s, u \in DOMAIN query_result.result.shard_offset_pairs :
          /\ query_result.result.shard_offset_pairs[s].offset = 0
          /\ query_result.result.shard_offset_pairs[u].offset = 1

\* The slots of [min_slot, desired_slot] that have a slot-seen record
C23_RecordSlots ==
    { x \in Slots : /\ query_result.seek_loc.min_slot <= x
                    /\ x <= query_result.seek_loc.desired_slot
                    /\ seek_producer_slot_seen[x].exists }

\* The record with the greatest slot in [min_slot, desired_slot]
C23_Record == seek_producer_slot_seen[Max(C23_RecordSlots)]

\* Some shard of the record has an offset that is not strictly greater than the minimum
\* offset of that shard (a shard without minimum offset included)
C23_Unreachable ==
    \E s \in DOMAIN C23_Record.shard_offset_map :
        \/ s \notin DOMAIN seek_producer_lock.minimum_shard_offset
        \/ C23_Record.shard_offset_map[s] <= seek_producer_lock.minimum_shard_offset[s].offset

\* The call gets past the reads of the rows: the producer is registered, its lock row has
\* minimum offsets, and max_revision, when given, is not below the revision of a row read
C23_RowsRead ==
    /\ C22_Registered
    /\ DOMAIN seek_producer_lock.minimum_shard_offset # {}
    /\ ~C22_Stale
    /\ (C23_RecordSlots # {} /\ query_result.max_revision_opt.some) =>
          query_result.max_revision_opt.revision >= C23_Record.revision

\* C23: compute_offset(producer, SlotApprox{desired_slot, min_slot}) uses the slot-seen
\* record of greatest slot in [min_slot, desired_slot]: it fails with
\* ImpossibleSlotOffset(desired_slot) when there is no such record or when some shard of
\* the record has an offset not strictly greater than the minimum offset of the shard,
\* and only then; otherwise it returns the offsets of the record each decreased by 1,
\* with the slot of the record, provided the result has num_shards entries; a success
\* always has exactly num_shards entries
C23_SlotApproxOffsets ==
    (C22_Called("SlotApprox") /\ C23_RowsRead) =>
        LET result == query_result.result
            impossible == << "ImpossibleSlotOffset", query_result.seek_loc.desired_slot >>
            failing == C23_RecordSlots = {} \/ C23_Unreachable
        IN  /\ failing => (~result.ok /\ result.error = impossible)
            /\ (~result.ok /\ result.error[1] = "ImpossibleSlotOffset") => failing
            /\ result.ok <=>
                  /\ ~failing
                  /\ Cardinality(DOMAIN C23_Record.shard_offset_map)
                        = seek_producer_info.num_shards
            /\ result.ok =>
                  /\ DOMAIN result.shard_offset_pairs = DOMAIN C23_Record.shard_offset_map
                  /\ Cardinality(DOMAIN result.shard_offset_pairs)
                        = seek_producer_info.num_shards
                  /\ \A s \in DOMAIN result.shard_offset_pairs :
                        /\ result.shard_offset_pairs[s].offset
                              = C23_Record.shard_offset_map[s] - 1
                        /\ result.shard_offset_pairs[s].slot = Max(C23_RecordSlots)

\* the record has, for one shard, the very minimum offset of that shard, and a greater
\* offset for the other shard: ImpossibleSlotOffset(desired_slot)
C23_Witness ==
    /\ C22_Called("SlotApprox")
    /\ C23_RowsRead
    /\ C23_RecordSlots # {}
    /\ \E s, u \in DOMAIN C23_Record.shard_offset_map :
          /\ s \in DOMAIN seek_producer_lock.minimum_shard_offset
          /\ u \in DOMAIN seek_producer_lock.minimum_shard_offset
          /\ C23_Record.shard_offset_map[s] = seek_producer_lock.minimum_shard_offset[s].offset
          /\ C23_Record.shard_offset_map[u] > seek_producer_lock.minimum_shard_offset[u].offset
    /\ ~query_result.result.ok
    /\ query_result.result.error
          = << "ImpossibleSlotOffset", query_result.seek_loc.desired_slot >>

\* two records in the range with different offsets: the one of greater slot is returned
C23_WitnessGreatest ==
    /\ C22_Called("SlotApprox")
    /\ C23_RowsRead
    /\ C23_RecordSlots = {1, 2}
    /\ seek_producer_slot_seen[1].shard_offset_map # seek_producer_slot_seen[2].shard_offset_map
    /\ query_result.result.ok
    /\ \A s \in DOMAIN query_result.result.shard_offset_pairs :
          query_result.result.shard_offset_pairs[s].slot = 2

\* The sink of instance i ended with a clean shutdown: shutdown() returned Ok, every
\* shard worker returned Ok and no database request failed
C24_CleanShutdown(i) ==
    /\ pc[i] = "stopped"
    /\ db_faults = 0
    /\ \A s \in Shards : sh_pc[s] = "done"

\* compute_offset(producer, Latest) on the tables the sink wrote
C24_Latest ==
    compute_offset([exists |-> producer_info, num_shards |-> num_shards], NoRow,
                   [ x \in Slots |-> NoRow ], period_commit, log, Latest, NoRevision)

\* C24: after a run of the sink that ended with a clean shutdown,
\* compute_offset(producer, Latest) returns next_offset[s] - 1 for every shard s, for
\* every number of events written in the run
C24_LatestIsNextOffsetMinusOne ==
    \A i \in Instances :
        C24_CleanShutdown(i) =>
            /\ C24_Latest.ok
            /\ \A s \in Shards : C24_Latest.shard_offset_pairs[s].offset = next_offset[s] - 1

\* C25: once ScyllaSink::new has set the lock row and started the workers, the row's
\* minimum_shard_offset holds for every shard s the pair (start_offset[s], initial_slot),
\* start_offset[s] being the next_offset the worker of s was started with
C25_MinimumIsWorkerStart ==
    \A i \in Instances :
        pc[i] = "running" =>
            \A s \in Shards :
                producer_lock.minimum_shard_offset[s] = << start_offset[s], initial_slot >>

\* Event id is staged in the buffer of shard s / is a row of the log of shard s
C26_Staged(s, id) == \E k \in 1..Len(buffer[s]) : buffer[s][k].id = id
C26_Persisted(s, id) == \E e \in LogRows(log, s) : e.id = id

\* C26: an event staged in the buffer of a shard is eventually written to the log
\* (unless the worker ends with an error), also when no further command arrives at the
\* shard: the linger deadline alone gets it flushed
C26_LingerFlushes ==
    \A s \in Shards : \A id \in 0..(MaxEvents - 1) :
        C26_Staged(s, id) ~> (C26_Persisted(s, id) \/ sh_pc[s] = "failed")

\* C27: every batch a shard worker wrote targets a single partition: all its events have
\* the same period (offset / SHARD_OFFSET_MODULO)
C27_SinglePartitionBatch ==
    \A s \in Shards : \A k \in 1..Len(log[s]) :
        \A e1, e2 \in Range(log[s][k]) : PeriodOf(e1.offset) = PeriodOf(e2.offset)

\* The router task has terminated
C28_RouterEnded == r_pc \in {"done", "failed"}

\* C28: a log_* call returns an error only once the router task has terminated; while
\* the task runs and its mailbox is full the call waits (nothing is returned, nothing
\* is enqueued), and a call that returns Ok has put its event at the tail of the
\* mailbox, which never exceeds its capacity
C28_LogFailsOnlyWhenClosed ==
    /\ [](Len(r_mail) <= RouterMailboxCapacity)
    /\ [][ /\ (log_failed' /\ ~log_failed) => C28_RouterEnded
           /\ (~C28_RouterEnded /\ Len(r_mail) >= RouterMailboxCapacity) =>
                 (sent' = sent /\ log_failed' = log_failed)
           /\ sent' # sent =>
                 /\ sent' = sent + 1
                 /\ Len(r_mail') = Len(r_mail) + 1
                 /\ r_mail'[Len(r_mail')].type = "Insert"
                 /\ r_mail'[Len(r_mail')].id = sent ]_vars

\* a call failed after the router task ended while the sink was in use, and some call
\* before it was accepted
C28_Witness ==
    /\ log_failed
    /\ C28_RouterEnded
    /\ sent >= 1
    /\ \E i \in Instances : pc[i] = "running"

\* a caller with events left waits on the full mailbox of a running router
C28_WitnessWaiting ==
    /\ \E i \in Instances : pc[i] = "running"
    /\ sent < budget
    /\ ~C28_RouterEnded
    /\ Len(r_mail) = RouterMailboxCapacity
    /\ ~log_failed

\* C29: in one run, for every shard, the period commits are written once each; the
\* commit of period k-1 exists as soon as the event of offset k * MODULO is staged; and
\* a commit is written only while next_offset is a positive multiple of MODULO, for the
\* period before the one of next_offset
C29_OnePeriodCommitPerBoundary ==
    /\ [](\A s \in Shards :
            /\ \A j, k \in 1..Len(period_commit[s]) :
                  j # k => period_commit[s][j] # period_commit[s][k]
            /\ \A k \in 1..Len(period_commit[s]) :
                  /\ period_commit[s][k] >= 0
                  /\ (period_commit[s][k] + 1) * SHARD_OFFSET_MODULO <= next_offset[s]
            /\ \A k \in 1..MaxEvents :
                  (start_offset[s] <= k * SHARD_OFFSET_MODULO
                     /\ k * SHARD_OFFSET_MODULO < next_offset[s])
                    => (k - 1) \in Range(period_commit[s]))
    /\ [][\A s \in Shards :
            period_commit'[s] # period_commit[s] =>
                /\ Rem(next_offset[s], SHARD_OFFSET_MODULO) = 0
                /\ next_offset[s] > 0
                /\ next_offset'[s] = next_offset[s]
                /\ period_commit'[s] =
                      Append(period_commit[s],
                             Div(next_offset[s], SHARD_OFFSET_MODULO) - 1)]_vars

\* the event at the boundary offset was staged after the one commit of period 0, and the
\* worker has since received another command
C29_Witness ==
    \E s \in Shards :
        /\ period_commit[s] = << 0 >>
        /\ next_offset[s] > SHARD_OFFSET_MODULO
        /\ sh_pc[s] = "done"

\* The three triggers of claim C30, on the worker state before the event is staged
C30_CapacityReached == Len(stage_result.buffer) >= DEFAULT_SHARD_MAX_BUFFER_CAPACITY

C30_BytesReached ==
    stage_result.curr_batch_byte_size + stage_result.blockchain_event.size
        >= max_buffer_byte_size

C30_DeadlinePassed == stage_result.timeout_elapsed

\* C30: a worker that receives an insert command flushes before staging exactly when the
\* buffer holds max_buffer_capacity events, or the byte size of the batch plus the size
\* of the event reaches max_buffer_byte_size, or the linger deadline has passed; the
\* batch written is the old buffer, without the new event; right after the flush the
\* buffer is empty and curr_batch_byte_size is 0; without a flush the event joins the
\* buffer; the buffer never holds more than max_buffer_capacity events
C30_FlushBeforeStaging ==
    stage_result.op = "stage" =>
        LET buf == stage_result.buffer
            ev == stage_result.blockchain_event
            r == stage_result.result
        IN  /\ r.flush <=> (C30_CapacityReached \/ C30_BytesReached \/ C30_DeadlinePassed)
            /\ r.flush =>
                  /\ r.log = IF buf = << >> THEN << >> ELSE << buf >>
                  /\ \A b \in 1..Len(r.log) : ev \notin Range(r.log[b])
                  /\ r.after_flush.buffer = << >>
                  /\ r.after_flush.curr_batch_byte_size = 0
                  /\ r.buffer = << ev >>
                  /\ r.curr_batch_byte_size = ev.size
            /\ ~r.flush =>
                  /\ r.log = << >>
                  /\ r.buffer = buf \o << ev >>
                  /\ r.curr_batch_byte_size = stage_result.curr_batch_byte_size + ev.size
            /\ Len(buf) <= DEFAULT_SHARD_MAX_BUFFER_CAPACITY
            /\ Len(r.buffer) <= DEFAULT_SHARD_MAX_BUFFER_CAPACITY
            /\ r.curr_batch_byte_size = BatchByteSize(r.buffer)

\* the capacity trigger alone: a full buffer below the byte limit, the deadline not
\* passed, written as one batch before the event is staged
C30_Witness ==
    /\ stage_result.op = "stage"
    /\ C30_CapacityReached
    /\ ~C30_BytesReached
    /\ ~C30_DeadlinePassed
    /\ stage_result.result.flush
    /\ stage_result.result.log = << stage_result.buffer >>
    /\ stage_result.result.buffer = << stage_result.blockchain_event >>

\* the byte trigger alone, and the deadline alone
C30_WitnessBytes ==
    /\ stage_result.op = "stage"
    /\ ~C30_CapacityReached /\ C30_BytesReached /\ ~C30_DeadlinePassed
    /\ stage_result.result.flush

C30_WitnessDeadline ==
    /\ stage_result.op = "stage"
    /\ ~C30_CapacityReached /\ ~C30_BytesReached /\ C30_DeadlinePassed
    /\ stage_result.buffer # << >>
    /\ stage_result.result.flush

\* no trigger: the event joins a non-empty buffer
C30_WitnessNoFlush ==
    /\ stage_result.op = "stage"
    /\ stage_result.buffer # << >>
    /\ ~stage_result.result.flush

\* C31: while the commit row of period p of shard s exists, no event of shard s with
\* an offset in period p is only in the worker's buffer: every staged event of the
\* period has its row in the log
C31_CommittedPeriodIsInLog ==
    \A s \in Shards : \A p \in Range(period_commit[s]) :
        \A e \in Range(buffer[s]) : PeriodOf(e.offset) # p

\* C32: for every producer_slot_seen row written in the run (slot S, shard_offset_map O),
\* every row of the log of shard s whose slot is S has an offset greater than O[s]
C32_SlotSeenBeforeEvents ==
    \A k \in 1..Len(slot_seen) : \A s \in Shards : \A e \in LogRows(log, s) :
        e.slot = slot_seen[k].slot => e.offset > slot_seen[k].shard_offset_map[s]

\* The producer id the sink was started with (config.producer_id)
SinkProducerId == Min(Producers)

\* The producer_lock table as LIST_PRODUCER_LOCKS reads it: the row of the sink
SinkLockRows ==
    [ p \in Producers |->
        IF p = SinkProducerId /\ producer_lock.exists
          THEN [exists |-> TRUE, is_ready |-> producer_lock.is_ready,
                revision |-> producer_lock.revision,
                execution_id |-> producer_lock.execution_id]
          ELSE NoRow ]

\* The keys under the lock prefix: the key of the sink while its lock is held, created
\* at revision rev
SinkEtcdKeys(rev) ==
    [ p \in Producers |->
        IF p = SinkProducerId /\ etcd_holder # None
          THEN [present |-> TRUE, mod_revision |-> rev]
          ELSE NoKey ]

\* C33: a producer whose ScyllaSink::new has returned and whose etcd lock is held is
\* returned by list_living_producers, whatever the revision of its lock key is
C33_StartedProducerIsLiving ==
    \A i \in Instances :
        (pc[i] = "running" /\ etcd_holder = i) =>
            \E rev \in Revisions :
                SinkProducerId \in list_living_producers(SinkLockRows, SinkEtcdKeys(rev))

\* Every database request that failed so far is the slot-seen write of the router: no
\* write of a shard worker failed
C34_NoShardWriteFailed ==
    db_faults = (IF background_commit_slot_seen.state = "err" THEN 1 ELSE 0)

\* C34: a shard worker none of whose database writes failed does not end with events in
\* its buffer: every event it staged has its row in the log when its task ends, for
\* whatever reason the router task terminated
C34_WorkerEndsFlushed ==
    \A s \in Shards :
        (sh_pc[s] \in {"done", "failed"} /\ C34_NoShardWriteFailed) => buffer[s] = << >>

\* Every task of the sink has terminated
C35_AllTerminated ==
    /\ r_pc \in {"done", "failed"}
    /\ \A s \in Shards : sh_pc[s] \in {"done", "failed"}

\* C35: with every task scheduled fairly and every database request completing, the
\* send of shutdown() does not wait forever on the router mailbox (the mailbox of a
\* running sink gets room or is closed), and once Shutdown is sent the router task and
\* all shard workers terminate and shutdown() returns
C35_ShutdownTerminates ==
    \A i \in Instances :
        /\ (pc[i] = "running") ~>
              (pc[i] # "running" \/ RouterMailboxClosed
                 \/ Len(r_mail) < RouterMailboxCapacity)
        /\ (pc[i] = "shutting") ~>
              (pc[i] \in {"stopped", "stopped_err"} /\ C35_AllTerminated)

\* shutdown() returned Ok after every event of the budget was logged: all tasks have
\* ended, every mailbox and buffer is empty and both shards have written batches
C35_Witness ==
    /\ pc["a"] = "stopped"
    /\ C35_AllTerminated
    /\ sent = budget
    /\ \A s \in Shards : mailbox[s] = << >> /\ buffer[s] = << >> /\ log[s] # << >>

\* shutdown() returned an error after a task of the sink had failed
C35_WitnessErr ==
    /\ pc["a"] = "stopped_err"
    /\ C35_AllTerminated
    /\ \E s \in Shards : sh_pc[s] = "failed"

\* shutdown() was called while the router waits for room in the mailbox of a shard
C35_WitnessReserveWaits ==
    /\ pc["a"] = "shutting"
    /\ r_pc = "reserve"
    /\ Len(mailbox[cursor]) >= ShardMailboxCapacity

\* the router waits for room to send Shutdown to a shard that still holds a command
C35_WitnessShutdownWaits ==
    /\ pc["a"] = "shutting"
    /\ r_pc = "shutdown"
    /\ sd_idx < num_shards
    /\ sh_pc[sd_idx] = "run"
    /\ Len(mailbox[sd_idx]) >= ShardMailboxCapacity

\* the send of shutdown() would wait: the router mailbox is full
C35_WitnessCallerWaits ==
    /\ pc["a"] = "running"
    /\ sent = budget
    /\ ~RouterMailboxClosed
    /\ Len(r_mail) >= RouterMailboxCapacity

====
